---------------------------- MODULE Spec2Model ----------------------------
(***************************************************************************)
(* A model of FactoryRecourcesOptimization (Costs.py, Optimization.py).    *)
(*                                                                         *)
(* Real-valued quantities of the program are modelled as exact rationals   *)
(* [n |-> numerator, d |-> denominator > 0] in lowest terms, so that the   *)
(* divisions, truncations (int), roundings (round) and ceilings (np.ceil)  *)
(* of the code are computed as the code computes them.  Floating-point     *)
(* rounding error is not modelled.                                         *)
(*                                                                         *)
(* The pseudo-random generator is an external collaborator: a draw is a    *)
(* code in DrawCodes, read as a standard-normal quantile by                *)
(* np.random.normal and as a uniform value in [0,1) by np.random.rand.     *)
(***************************************************************************)
EXTENDS Integers, Sequences, FiniteSets, TLC

----------------------------------------------------------------------------
(* Exact rational arithmetic                                               *)

Abs(i) == IF i < 0 THEN -i ELSE i

RECURSIVE GCD(_, _)
GCD(a, b) == IF b = 0 THEN a ELSE GCD(b, a % b)

QNorm(num, den) ==
    LET g == GCD(Abs(num), den)
    IN  [n |-> num \div g, d |-> den \div g]

Q(num, den) == IF den > 0 THEN QNorm(num, den) ELSE QNorm(-num, -den)

QI(i) == [n |-> i, d |-> 1]

Q0 == QI(0)

Q1 == QI(1)

LCM(a, b) == (a \div GCD(a, b)) * b

QAdd(a, b) ==
    IF a.d = 1 /\ b.d = 1 THEN [n |-> a.n + b.n, d |-> 1]
    ELSE LET l == LCM(a.d, b.d)
         IN  QNorm(a.n * (l \div a.d) + b.n * (l \div b.d), l)

QNeg(a) == [n |-> -a.n, d |-> a.d]

QSub(a, b) == QAdd(a, QNeg(b))

QMul(a, b) ==
    IF a.d = 1 /\ b.d = 1 THEN [n |-> a.n * b.n, d |-> 1]
    ELSE LET g1 == GCD(Abs(a.n), b.d)
             g2 == GCD(Abs(b.n), a.d)
         IN  [n |-> (a.n \div g1) * (b.n \div g2), d |-> (a.d \div g2) * (b.d \div g1)]

QInv(a) == IF a.n > 0 THEN [n |-> a.d, d |-> a.n] ELSE [n |-> -a.d, d |-> -a.n]

QDiv(a, b) == QMul(a, QInv(b))

QLt(a, b) ==
    IF a.d = b.d THEN a.n < b.n
    ELSE LET l == LCM(a.d, b.d)
         IN  a.n * (l \div a.d) < b.n * (l \div b.d)

QLe(a, b) == ~QLt(b, a)

QMax(a, b) == IF QLt(a, b) THEN b ELSE a

QMin(a, b) == IF QLt(b, a) THEN b ELSE a

RECURSIVE QPow(_, _)
QPow(a, k) == IF k = 0 THEN Q1 ELSE QMul(a, QPow(a, k - 1))

QFloor(a) == a.n \div a.d

(* np.ceil *)
QCeil(a) == -((-a.n) \div a.d)

(* int(x): truncation toward zero *)
QTrunc(a) == IF a.n >= 0 THEN a.n \div a.d ELSE -((-a.n) \div a.d)

(* round(x, k) for scale = 10^k: round half to even *)
QRound(a, scale) ==
    LET s   == QMul(a, QI(scale))
        f   == QFloor(s)
        two == 2 * (s.n - f * s.d)
        r   == IF two < s.d THEN f
               ELSE IF two > s.d THEN f + 1
               ELSE IF f % 2 = 0 THEN f ELSE f + 1
    IN  Q(r, scale)

RECURSIVE QSum(_)
QSum(s) == IF s = <<>> THEN Q0 ELSE QAdd(Head(s), QSum(Tail(s)))

RECURSIVE QMinSeq(_)
QMinSeq(s) == IF Len(s) = 1 THEN s[1] ELSE QMin(s[1], QMinSeq(Tail(s)))

RECURSIVE QMaxSeq(_)
QMaxSeq(s) == IF Len(s) = 1 THEN s[1] ELSE QMax(s[1], QMaxSeq(Tail(s)))

(* np.mean *)
QMean(s) == QDiv(QSum(s), QI(Len(s)))

None == <<>>

Some(v) == <<v>>

----------------------------------------------------------------------------
(* Bounds of the model                                                     *)

\* largest planning horizon n_years explored for calculate_labor_vs_automation
MaxYears == 1

\* longest planning horizon n_months explored
MaxMonths == 2

\* most calls of the objective or the budget constraint the minimizer makes
\* after its first evaluation of the objective at the initial guess
MaxEvals == 2

\* largest n_simulations explored for a Monte Carlo model run on its own
MaxTrials == 2

----------------------------------------------------------------------------
VARIABLES
    \* calculate_labor_vs_automation (Costs.py)
    lpc,                  \* position in calculate_labor_vs_automation
    lp,                   \* its arguments
    lmonth,               \* loop variable `month` of the running loop
    labor_cost_npv,
    automation_cost_npv,
    optimal_solution,
    cumulative_savings,
    break_even_months,
    labor_result,         \* the returned dict (None before the return)
    \* one call of a Monte Carlo cost model (Costs.py)
    mpc,                          \* position in the running model
    mmodel,                       \* which model function is running
    mp,                           \* its arguments
    simulated_costs,              \* raw material, production, storage
    simulated_own_costs,          \* logistics
    simulated_contractor_costs,   \* logistics
    risk_breakdown,               \* storage
    mresult,                      \* the returned dict (None before the return)
    \* optimize_business_costs and calculate_total_cost (Optimization.py)
    opc,                  \* position in optimize_business_costs
    op,                   \* its arguments
    supplied_inventory,   \* the inventory values the caller passed in, as passed
    current_inventory,    \* the caller's dict, shared by every evaluation
    constraints,          \* the constraint list handed to the minimizer
    n_evals,              \* evaluations the minimizer has asked for
    caller,               \* who called calculate_total_cost
    x,                    \* the decision vector being evaluated
    month,                \* loop variable of calculate_total_cost
    eval_start_inventory, \* the inventory found at the entry of the evaluation
    totals,               \* total_*_cost accumulators
    risk_metrics,
    calls,                \* the model calls of the running evaluation, in order
    draws,                \* the draw sequence the running evaluation meets
    cost_result,          \* the dict calculate_total_cost returned last
    objective_value,      \* the value objective(x) returned last
    constraint_value,     \* the value the budget constraint returned last
    min_result,           \* what minimize returned
    opt_result,           \* the dict optimize_business_costs returns
    \* project_inventory (Optimization.py)
    jpc,                  \* position in project_inventory
    jargs,                \* its arguments
    jmonth,               \* its loop variable
    current_raw,
    current_goods,
    inventory_projection

optVars == <<opc, op, supplied_inventory, current_inventory, constraints,
             n_evals, caller, x, month, eval_start_inventory, totals,
             risk_metrics, calls, draws, cost_result, objective_value,
             constraint_value, min_result, opt_result>>

projVars == <<jpc, jargs, jmonth, current_raw, current_goods,
              inventory_projection>>

mcVars == <<mpc, mmodel, mp, simulated_costs, simulated_own_costs,
            simulated_contractor_costs, risk_breakdown, mresult>>

laborVars == <<lpc, lp, lmonth, labor_cost_npv, automation_cost_npv,
               optimal_solution, cumulative_savings, break_even_months,
               labor_result>>

vars == <<laborVars, mcVars, optVars, projVars>>

\* no call of calculate_labor_vs_automation is in progress
LaborIdle ==
    /\ lpc = "idle"
    /\ lp = None
    /\ lmonth = 0
    /\ labor_cost_npv = Q0
    /\ automation_cost_npv = Q0
    /\ optimal_solution = None
    /\ cumulative_savings = Q0
    /\ break_even_months = None
    /\ labor_result = None

\* no call of optimize_business_costs is in progress
OptIdle ==
    /\ opc = "idle"
    /\ op = None
    /\ supplied_inventory = None
    /\ current_inventory = None
    /\ constraints = <<>>
    /\ n_evals = 0
    /\ caller = None
    /\ x = None
    /\ month = 0
    /\ eval_start_inventory = None
    /\ totals = None
    /\ risk_metrics = None
    /\ calls = <<>>
    /\ draws = None
    /\ cost_result = None
    /\ objective_value = None
    /\ constraint_value = None
    /\ min_result = None
    /\ opt_result = None

\* no call of project_inventory is in progress
ProjIdle ==
    /\ jpc = "idle"
    /\ jargs = None
    /\ jmonth = 0
    /\ current_raw = Q0
    /\ current_goods = Q0
    /\ inventory_projection = None

\* no Monte Carlo model is running on its own
McIdle ==
    /\ mpc = "idle"
    /\ mmodel = None
    /\ mp = None
    /\ simulated_costs = <<>>
    /\ simulated_own_costs = <<>>
    /\ simulated_contractor_costs = <<>>
    /\ risk_breakdown = None
    /\ mresult = None

----------------------------------------------------------------------------
(* The random source: np.random.normal and np.random.rand                  *)

DrawCodes == {1, 2, 3}

\* the standard-normal quantile a draw stands for
ZQuantile == <<QI(-3), QI(0), QI(1)>>

\* the uniform value in [0, 1) a draw stands for
UQuantile == <<Q0, Q(1, 2), Q(9, 10)>>

\* np.random.normal(loc, scale)
Normal(loc, scale, c) == QAdd(loc, QMul(scale, ZQuantile[c]))

\* np.random.rand()
Rand(c) == UQuantile[c]

\* the draws of trial i (1-based) out of a stream, k draws per trial
TrialDraws(stream, i, k) == [j \in 1 .. k |-> stream[(i - 1) * k + j]]

\* np.mean(simulated_costs > base_budget): share of trials above the budget
RECURSIVE CountAbove(_, _)
CountAbove(costs, budget) ==
    IF costs = <<>> THEN 0
    ELSE (IF QLt(budget, Head(costs)) THEN 1 ELSE 0) + CountAbove(Tail(costs), budget)

----------------------------------------------------------------------------
(* calculate_raw_material_costs                                            *)

\* iteration order of `for material in base_prices`
Materials == <<"plastic", "dye">>

\* adjusted_boxes = target_boxes * (1 + defect_rate)
adjusted_boxes(p) == QMul(p.target_boxes, QAdd(Q1, p.defect_rate))

\* required_materials[material] = adjusted_boxes * amount
required_materials(p, material) ==
    QMul(adjusted_boxes(p), p.material_per_box[material])

\* daily_usage[material] = amount / 30
daily_usage(p, material) == QDiv(required_materials(p, material), QI(30))

\* variant: counts the days inclusively, one day too many
safety_stock_inclusive(p, material) ==
    QMul(daily_usage(p, material), QI(p.safety_stock_days + 1))

\* safety_stock[material] = daily_usage[material] * safety_stock_days
safety_stock(p, material) ==
    QMul(daily_usage(p, material), QI(p.safety_stock_days))

\* price * amount of the j-th material in one trial (draws 2j-1 and 2j)
RawMaterialTerm(p, ds, j) ==
    LET material == Materials[j]
        price  == Normal(p.base_prices[material],
                         QMul(p.base_prices[material], p.price_volatility[material]),
                         ds[2 * j - 1])
        amount == IF QLt(Rand(ds[2 * j]), p.delivery_risk)
                  THEN QAdd(required_materials(p, material), safety_stock(p, material))
                  ELSE required_materials(p, material)
    IN  QMul(price, amount)

\* total_cost of one trial: the loop over base_prices
RawMaterialTrialCost(p, ds) ==
    QSum([j \in 1 .. Len(Materials) |-> RawMaterialTerm(p, ds, j)])

RawMaterialDrawsPerTrial == 2 * Len(Materials)

\* base_budget = sum(base_prices[m] * required_materials[m])
base_budget(p) ==
    QSum([j \in 1 .. Len(Materials) |->
            QMul(p.base_prices[Materials[j]], required_materials(p, Materials[j]))])

\* the returned dict
RawMaterialResult(p, costs) ==
    [ expected_cost     |-> QTrunc(QMean(costs)),
      min_cost          |-> QTrunc(QMinSeq(costs)),
      max_cost          |-> QTrunc(QMaxSeq(costs)),
      risk_above_budget |-> QRound(QMul(QI(100),
                                        Q(CountAbove(costs, base_budget(p)), Len(costs))),
                                   10),
      safety_stock      |-> [m \in {Materials[j] : j \in 1 .. Len(Materials)} |->
                               safety_stock(p, m)] ]

----------------------------------------------------------------------------
(* calculate_production_costs                                              *)

\* fixed_costs: the nine monthly components
fixed_costs(p) ==
    QSum(<<p.rent, p.utilities, p.equipment_depreciation, p.certification,
           p.internal_logistics, p.it_infrastructure, p.waste_disposal,
           p.production_tax, p.equipment_insurance>>)

\* total_cost of one trial (draw 1: energy price, draw 2: failure)
ProductionTrialCost(p, ds) ==
    LET energy_price == Normal(p.energy_price_mean, p.energy_price_std, ds[1])
        energy_cost  == QMul(QMul(p.energy_per_box, p.target_boxes), energy_price)
        extra_cost   == IF QLt(Rand(ds[2]), p.equipment_failure_rate)
                        THEN p.failure_extra_cost ELSE Q0
    IN  QSum(<<energy_cost, QMul(p.maintenance_per_box, p.target_boxes),
               fixed_costs(p), extra_cost>>)

ProductionDrawsPerTrial == 2

\* the returned dict (cost_breakdown left out: no claim reads it)
ProductionResult(p, costs) ==
    [ total_cost   |-> QTrunc(QMean(costs)),
      min_cost     |-> QTrunc(QMinSeq(costs)),
      max_cost     |-> QTrunc(QMaxSeq(costs)),
      failure_risk |-> QRound(QMul(p.equipment_failure_rate, QI(100)), 10) ]

----------------------------------------------------------------------------
(* calculate_storage_costs                                                 *)

base_fixed_costs(p) ==
    QSum(<<p.rent_per_month, p.security_systems_cost, p.wms_cost, p.utilities_cost,
           QDiv(QMul(p.inventory_value, p.insurance_rate), QI(12)),
           p.depreciation_cost>>)

base_variable_costs(p) ==
    QSum(<<QMul(p.used_volume, p.storage_cost_per_m3), p.internal_logistics_cost,
           QMul(p.inventory_value, p.spoilage_rate)>>)

base_cost(p) == QAdd(base_fixed_costs(p), base_variable_costs(p))

\* the fixed 10% probability of a rent increase
RentIncreaseProbability == Q(1, 10)

\* the three risk events of one trial and their cost terms
rent_increase(p, ds) ==
    IF QLt(Rand(ds[1]), RentIncreaseProbability)
    THEN QMul(p.rent_per_month, p.rent_volatility) ELSE Q0

extra_spoilage(p, ds) ==
    IF QLt(Rand(ds[2]), p.spoilage_risk)
    THEN QMul(QMul(p.inventory_value, p.spoilage_rate), QI(2)) ELSE Q0

security_loss(p, ds) ==
    IF QLt(Rand(ds[3]), p.security_breach_risk)
    THEN QMul(p.inventory_value, Q(1, 100)) ELSE Q0

\* base_cost + additional_costs of one trial
StorageTrialCost(p, ds) ==
    QAdd(base_cost(p),
         QSum(<<rent_increase(p, ds), extra_spoilage(p, ds), security_loss(p, ds)>>))

\* variant: the costs accumulated whole, without the division by n_simulations
StorageRiskBreakdownUndivided(rb, p, ds) ==
    [ rent_increase      |-> QAdd(rb.rent_increase, rent_increase(p, ds)),
      extra_spoilage     |-> QAdd(rb.extra_spoilage, extra_spoilage(p, ds)),
      security_incidents |-> QAdd(rb.security_incidents, security_loss(p, ds)) ]

\* risk_breakdown[...] += cost / n_simulations, for the events that hit
StorageRiskBreakdown(rb, p, ds) ==
    [ rent_increase      |-> QAdd(rb.rent_increase,
                                  QDiv(rent_increase(p, ds), QI(p.n_simulations))),
      extra_spoilage     |-> QAdd(rb.extra_spoilage,
                                  QDiv(extra_spoilage(p, ds), QI(p.n_simulations))),
      security_incidents |-> QAdd(rb.security_incidents,
                                  QDiv(security_loss(p, ds), QI(p.n_simulations))) ]

StorageDrawsPerTrial == 3

EmptyRiskBreakdown ==
    [rent_increase |-> Q0, extra_spoilage |-> Q0, security_incidents |-> Q0]

\* the returned dict (cost_breakdown left out: no claim reads it)
StorageResult(p, costs, rb) ==
    [ base_cost      |-> QRound(base_cost(p), 100),
      avg_total_cost |-> QRound(QMean(costs), 100),
      min_cost       |-> QRound(QMinSeq(costs), 100),
      max_cost       |-> QRound(QMaxSeq(costs), 100),
      risk_breakdown |-> rb ]

----------------------------------------------------------------------------
(* calculate_logistics_costs                                               *)

total_volume(p) == QAdd(p.raw_material_volume, p.finished_goods_volume)

\* variant: int(total_volume / truck_capacity), a partly filled truck dropped
trucks_needed_truncated(p) == QTrunc(QDiv(total_volume(p), p.truck_capacity))

\* trucks_needed = int(np.ceil(total_volume / truck_capacity))
trucks_needed(p) == QCeil(QDiv(total_volume(p), p.truck_capacity))

\* draw 1: fuel price, draw 2: is_delayed, draw 3: is_damaged
is_delayed(p, ds) == QLt(Rand(ds[2]), p.contractor_delay_risk)

is_damaged(p, ds) == QLt(Rand(ds[3]), p.damage_risk)

own_cost(p, ds) ==
    LET fuel_price == Normal(p.fuel_price_mean, p.fuel_price_std, ds[1])
        distance   == QAdd(p.distance_supplier, p.distance_customer)
        trucks     == QI(trucks_needed(p))
        base       == QSum(<<QMul(QMul(p.truck_cost_per_km, distance), trucks),
                             QMul(p.truck_fixed_cost, trucks),
                             QMul(QMul(QMul(fuel_price, Q(1, 10)), distance), trucks)>>)
    IN  IF is_damaged(p, ds)
        THEN QAdd(base, QMul(QMul(p.damage_cost_per_m3, total_volume(p)), Q(1, 2)))
        ELSE base

contractor_cost(p, ds) ==
    LET base    == QMul(p.contractor_cost_per_m3, total_volume(p))
        delayed == IF is_delayed(p, ds) THEN QMul(base, Q(12, 10)) ELSE base
    IN  IF is_damaged(p, ds)
        THEN QAdd(delayed, QMul(QMul(p.damage_cost_per_m3, total_volume(p)), Q(3, 10)))
        ELSE delayed

LogisticsDrawsPerTrial == 3

\* variant: the in-house mean whichever strategy is cheaper
LogisticsTotalCostOwn(own, contractor) == QTrunc(QMean(own))

\* "total_cost": int(min(mean_own_cost, mean_contractor_cost))
LogisticsTotalCost(own, contractor) == QTrunc(QMin(QMean(own), QMean(contractor)))

\* variant: the minimum over the in-house trials only
LogisticsMinCostOwnOnly(own, contractor) == QTrunc(QMinSeq(own))

\* "min_cost": int(min(np.min(own), np.min(contractor)))
LogisticsMinCost(own, contractor) == QTrunc(QMin(QMinSeq(own), QMinSeq(contractor)))

\* "max_cost": int(max(np.max(own), np.max(contractor)))
LogisticsMaxCost(own, contractor) == QTrunc(QMax(QMaxSeq(own), QMaxSeq(contractor)))

\* "risk_breakdown": the two probabilities as percentages, one decimal
LogisticsRiskBreakdown(p) ==
    [ delay_risk  |-> QRound(QMul(p.contractor_delay_risk, QI(100)), 10),
      damage_risk |-> QRound(QMul(p.damage_risk, QI(100)), 10) ]

\* "cost_breakdown": the in-house lines (transport, fixed costs, fuel at the
\* mean price) and the contractor's (haulage, expected delay penalties)
LogisticsCostBreakdown(p) ==
    LET distance == QAdd(p.distance_supplier, p.distance_customer)
        trucks   == QI(trucks_needed(p))
    IN  [ own_fleet |->
            [ transport   |-> QTrunc(QMul(QMul(p.truck_cost_per_km, distance), trucks)),
              fixed_costs |-> QMul(p.truck_fixed_cost, trucks),
              fuel        |-> QTrunc(QMul(QMul(QMul(p.fuel_price_mean, Q(1, 10)),
                                               distance), trucks)) ],
          contractor |->
            [ haulage         |-> QTrunc(QMul(p.contractor_cost_per_m3, total_volume(p))),
              delay_penalties |-> QTrunc(QMul(QMul(QMul(p.contractor_cost_per_m3,
                                                        total_volume(p)), Q(2, 10)),
                                              p.contractor_delay_risk)) ] ]

\* the returned dict; own_fleet and contractor stand for the two strategy
\* labels of the source
LogisticsResult(p, own, contractor) ==
    [ total_cost       |-> LogisticsTotalCost(own, contractor),
      min_cost         |-> LogisticsMinCost(own, contractor),
      max_cost         |-> LogisticsMaxCost(own, contractor),
      optimal_strategy |-> IF QLt(QMean(own), QMean(contractor))
                           THEN "own_fleet" ELSE "contractor",
      risk_breakdown   |-> LogisticsRiskBreakdown(p),
      cost_breakdown   |-> LogisticsCostBreakdown(p) ]

----------------------------------------------------------------------------
(* One call of a Monte Carlo model, trial by trial                         *)

RawMaterialInputs ==
    [ target_boxes      : {QI(0), QI(10)},
      material_per_box  : {[plastic |-> QI(2), dye |-> Q(1, 2)]},
      base_prices       : {[plastic |-> QI(10), dye |-> QI(20)]},
      price_volatility  : {[plastic |-> Q(1, 2), dye |-> Q(1, 10)]},
      defect_rate       : {Q(1, 20)},
      delivery_risk     : {Q0, Q(1, 10)},
      safety_stock_days : {0, 7},
      n_simulations     : 1 .. MaxTrials ]

ProductionInputs ==
    [ target_boxes           : {QI(0), QI(10)},
      energy_per_box         : {Q(5, 2)},
      maintenance_per_box    : {QI(3)},
      rent                   : {QI(5)},
      utilities              : {QI(2)},
      equipment_depreciation : {Q(5, 2)},
      certification          : {Q(1, 2)},
      internal_logistics     : {QI(1)},
      it_infrastructure      : {Q(3, 2)},
      waste_disposal         : {Q(3, 10)},
      production_tax         : {Q(1, 2)},
      equipment_insurance    : {QI(1)},
      energy_price_mean      : {QI(8)},
      energy_price_std       : {Q(4, 5)},
      equipment_failure_rate : {Q0, Q(1, 20)},
      failure_extra_cost     : {QI(20)},
      n_simulations          : 1 .. MaxTrials ]

StorageInputs ==
    [ storage_volume          : {QI(10)},
      used_volume             : {QI(8)},
      rent_per_month          : {QI(10)},
      security_systems_cost   : {QI(1)},
      wms_cost                : {QI(1)},
      utilities_cost          : {QI(1)},
      insurance_rate          : {Q(12, 1000)},
      inventory_value         : {QI(0), QI(7)},
      depreciation_cost       : {QI(1)},
      storage_cost_per_m3     : {Q(1, 2)},
      internal_logistics_cost : {QI(1)},
      spoilage_rate           : {Q(1, 100)},
      rent_volatility         : {Q(15, 100)},
      spoilage_risk           : {Q0, Q(1, 20)},
      security_breach_risk    : {Q(1, 50)},
      n_simulations           : 1 .. MaxTrials ]

LogisticsInputs ==
    [ raw_material_volume    : {QI(0), QI(20), QI(200)},
      finished_goods_volume  : {QI(0), QI(15), QI(150)},
      distance_supplier      : {QI(6)},
      distance_customer      : {QI(4)},
      truck_capacity         : {QI(12), Q(5, 2)},
      truck_cost_per_km      : {Q(3, 4)},
      truck_fixed_cost       : {QI(10)},
      contractor_cost_per_m3 : {QI(2)},
      contractor_delay_risk  : {Q(3, 20)},
      fuel_price_mean        : {QI(10)},
      fuel_price_std         : {QI(5)},
      damage_risk            : {Q(1, 20)},
      damage_cost_per_m3     : {QI(1)},
      n_simulations          : 1 .. MaxTrials ]

\* the arguments a model may be called with
McInputs(model) ==
    CASE model = "raw_material" -> RawMaterialInputs
      [] model = "production"   -> ProductionInputs
      [] model = "storage"      -> StorageInputs
      [] model = "logistics"    -> LogisticsInputs

McModels == {"raw_material", "production", "storage", "logistics"}

\* entry of a model function: the simulation lists are empty
InitMC ==
    /\ mmodel \in McModels
    /\ mp \in McInputs(mmodel)
    /\ mpc = "trials"
    /\ simulated_costs = <<>>
    /\ simulated_own_costs = <<>>
    /\ simulated_contractor_costs = <<>>
    /\ risk_breakdown = IF mmodel = "storage" THEN EmptyRiskBreakdown ELSE None
    /\ mresult = None
    /\ LaborIdle
    /\ OptIdle
    /\ ProjIdle

\* the trials done so far
TrialsDone ==
    IF mmodel = "logistics" THEN Len(simulated_own_costs) ELSE Len(simulated_costs)

\* for i in range(n_simulations)
MoreTrials == mpc = "trials" /\ TrialsDone < mp.n_simulations

AllTrialsDone == mpc = "trials" /\ TrialsDone = mp.n_simulations

DrawSeqs(k) == [1 .. k -> DrawCodes]

\* one trial of calculate_raw_material_costs
RawMaterialTrial ==
    /\ mmodel = "raw_material"
    /\ MoreTrials
    /\ \E ds \in DrawSeqs(RawMaterialDrawsPerTrial) :
          simulated_costs' = Append(simulated_costs, RawMaterialTrialCost(mp, ds))
    /\ UNCHANGED <<mpc, mmodel, mp, simulated_own_costs,
                   simulated_contractor_costs, risk_breakdown, mresult>>
    /\ UNCHANGED <<laborVars, optVars, projVars>>

\* one trial of calculate_production_costs
ProductionTrial ==
    /\ mmodel = "production"
    /\ MoreTrials
    /\ \E ds \in DrawSeqs(ProductionDrawsPerTrial) :
          simulated_costs' = Append(simulated_costs, ProductionTrialCost(mp, ds))
    /\ UNCHANGED <<mpc, mmodel, mp, simulated_own_costs,
                   simulated_contractor_costs, risk_breakdown, mresult>>
    /\ UNCHANGED <<laborVars, optVars, projVars>>

\* one trial of calculate_storage_costs
StorageTrial ==
    /\ mmodel = "storage"
    /\ MoreTrials
    /\ \E ds \in DrawSeqs(StorageDrawsPerTrial) :
          /\ simulated_costs' = Append(simulated_costs, StorageTrialCost(mp, ds))
          /\ risk_breakdown' = StorageRiskBreakdown(risk_breakdown, mp, ds)
    /\ UNCHANGED <<mpc, mmodel, mp, simulated_own_costs,
                   simulated_contractor_costs, mresult>>
    /\ UNCHANGED <<laborVars, optVars, projVars>>

\* one trial of calculate_logistics_costs: both strategies, the same draws
LogisticsTrial ==
    /\ mmodel = "logistics"
    /\ MoreTrials
    /\ \E ds \in DrawSeqs(LogisticsDrawsPerTrial) :
          /\ simulated_own_costs' = Append(simulated_own_costs, own_cost(mp, ds))
          /\ simulated_contractor_costs' =
                Append(simulated_contractor_costs, contractor_cost(mp, ds))
    /\ UNCHANGED <<mpc, mmodel, mp, simulated_costs, risk_breakdown, mresult>>
    /\ UNCHANGED <<laborVars, optVars, projVars>>

\* the return of the running model
McReturn ==
    /\ AllTrialsDone
    /\ mresult' = Some(
         CASE mmodel = "raw_material" -> RawMaterialResult(mp, simulated_costs)
           [] mmodel = "production"   -> ProductionResult(mp, simulated_costs)
           [] mmodel = "storage"      ->
                StorageResult(mp, simulated_costs, risk_breakdown)
           [] mmodel = "logistics"    ->
                LogisticsResult(mp, simulated_own_costs, simulated_contractor_costs))
    /\ mpc' = "done"
    /\ UNCHANGED <<mmodel, mp, simulated_costs, simulated_own_costs,
                   simulated_contractor_costs, risk_breakdown>>
    /\ UNCHANGED <<laborVars, optVars, projVars>>

NextMC ==
    \/ RawMaterialTrial
    \/ ProductionTrial
    \/ StorageTrial
    \/ LogisticsTrial
    \/ McReturn

SpecMC == InitMC /\ [][NextMC]_vars

----------------------------------------------------------------------------
(* Claims about the Monte Carlo models                                     *)

McReturned == mpc = "done"

\* C2: for every n_simulations >= 1 and every sequence of draws, each Monte
\* Carlo model returns min_cost <= expected cost <= max_cost, the expected
\* cost being expected_cost (raw material), total_cost (production, and for
\* logistics the smaller of the two strategy means, with min and max over
\* both strategies' trials) or avg_total_cost (storage).
C2_MinExpectedMax ==
    McReturned =>
        LET r == mresult[1]
        IN  CASE mmodel = "raw_material" ->
                   r.min_cost <= r.expected_cost /\ r.expected_cost <= r.max_cost
              [] mmodel = "storage" ->
                   QLe(r.min_cost, r.avg_total_cost) /\ QLe(r.avg_total_cost, r.max_cost)
              [] OTHER ->
                   r.min_cost <= r.total_cost /\ r.total_cost <= r.max_cost

\* a logistics call returned whose expected cost lies strictly between the
\* reported minimum and maximum
C2_Witness ==
    /\ McReturned
    /\ mmodel = "logistics"
    /\ mp.n_simulations >= 2
    /\ mresult[1].min_cost < mresult[1].total_cost
    /\ mresult[1].total_cost < mresult[1].max_cost

\* the multiples of safety_stock_days the linearity is checked for
ScaleFactors == 0 .. 3

C13_TrucksNeededIsCeiling ==
    (McReturned /\ mmodel = "logistics") =>
        LET volume == QAdd(mp.raw_material_volume, mp.finished_goods_volume)
            lines  == mresult[1].cost_breakdown.own_fleet
            per_km == QMul(mp.truck_cost_per_km,
                           QAdd(mp.distance_supplier, mp.distance_customer))
        IN  \E k \in 0 .. 200 :
               /\ QLe(volume, QMul(QI(k), mp.truck_capacity))
               /\ k > 0 => QLt(QMul(QI(k - 1), mp.truck_capacity), volume)
               /\ (mp.truck_capacity = QI(12) /\ volume = QI(350)) => k = 30
               /\ lines.fixed_costs = QMul(mp.truck_fixed_cost, QI(k))
               /\ lines.transport = QTrunc(QMul(per_km, QI(k)))

\* a logistics call returned for capacity 12 and volumes 200 and 150
C13_Witness ==
    /\ McReturned
    /\ mmodel = "logistics"
    /\ mp.truck_capacity = QI(12)
    /\ mp.raw_material_volume = QI(200)
    /\ mp.finished_goods_volume = QI(150)
    /\ mresult[1].cost_breakdown.own_fleet.fixed_costs = QMul(mp.truck_fixed_cost, QI(30))

\* the mean over the trials of the strategy the returned dict names
NamedStrategyMean ==
    IF mresult[1].optimal_strategy = "own_fleet"
    THEN QMean(simulated_own_costs) ELSE QMean(simulated_contractor_costs)

\* the in-house strategy is named exactly when its mean is strictly lower
StrategyIsLowerMean ==
    mresult[1].optimal_strategy = "own_fleet"
        <=> QLt(QMean(simulated_own_costs), QMean(simulated_contractor_costs))

\* C14: optimal_strategy is in-house exactly when the in-house mean is
\* strictly lower than the contractor mean (a tie selects the contractor),
\* and the reported total_cost is the mean of the strategy named
C14_TotalCostIsNamedMean ==
    (McReturned /\ mmodel = "logistics") =>
        /\ StrategyIsLowerMean
        /\ QI(mresult[1].total_cost) = NamedStrategyMean

\* C14: optimal_strategy is in-house exactly when the in-house mean is
\* strictly lower than the contractor mean (a tie selects the contractor),
\* and the reported total_cost is the mean of the strategy named, cut to its
\* integer part
C14_TotalCostIsTruncatedNamedMean ==
    (McReturned /\ mmodel = "logistics") =>
        /\ StrategyIsLowerMean
        /\ mresult[1].total_cost = QTrunc(NamedStrategyMean)

\* a logistics call returned naming the in-house strategy, whose mean is not
\* a whole number
C14_Witness ==
    /\ McReturned
    /\ mmodel = "logistics"
    /\ mresult[1].optimal_strategy = "own_fleet"
    /\ QI(mresult[1].total_cost) # NamedStrategyMean

\* a logistics call returned on a tie of the two means
LogisticsTie ==
    /\ McReturned
    /\ mmodel = "logistics"
    /\ QMean(simulated_own_costs) = QMean(simulated_contractor_costs)

----------------------------------------------------------------------------
(* calculate_labor_vs_automation                                           *)

MonthsPerYear == 12

\* n_months = n_years * 12
n_months_of(p) == p.n_years * MonthsPerYear

\* n_workers = int(np.ceil(target_boxes / workers_productivity))
n_workers(p) == QCeil(QDiv(p.target_boxes, p.workers_productivity))

\* monthly_labor_cost = n_workers * worker_salary * (1 + worker_tax_rate)
monthly_labor_cost(p) ==
    QMul(QMul(QI(n_workers(p)), p.worker_salary), QAdd(Q1, p.worker_tax_rate))

\* annual_training = (worker_training_cost * n_workers) / 12
annual_training(p) ==
    QDiv(QMul(p.worker_training_cost, QI(n_workers(p))), QI(12))

\* n_robots = int(np.ceil(target_boxes / robot_productivity))
n_robots(p) == QCeil(QDiv(p.target_boxes, p.robot_productivity))

\* initial_robot_cost = n_robots * robot_cost
initial_robot_cost(p) == QMul(QI(n_robots(p)), p.robot_cost)

\* monthly_robot_cost = maintenance*n_robots + software + initial/lifespan
monthly_robot_cost(p) ==
    QAdd(QAdd(QMul(p.robot_maintenance, QI(n_robots(p))), p.robot_software_cost),
         QDiv(initial_robot_cost(p), p.robot_lifespan))

\* (1 + discount_rate/12) ** month
DiscountFactor(p, m) ==
    QPow(QAdd(Q1, QDiv(p.discount_rate, QI(12))), m)

\* monthly_savings = monthly_labor_cost - monthly_robot_cost
monthly_savings(p) == QSub(monthly_labor_cost(p), monthly_robot_cost(p))

\* variant: range(1, n_months + 2), one month too many
InHorizonOffByOne(p, m) == m <= n_months_of(p) + 1

\* the loop bound range(1, n_months + 1) of the three month loops
InHorizon(p, m) == m <= n_months_of(p)

\* variant: cumulative_savings > initial_robot_cost (strict)
ReachedBreakEvenStrict(cum, p) == QLt(initial_robot_cost(p), cum)

\* the break-even test of the loop body
ReachedBreakEven(cum, p) == QLe(initial_robot_cost(p), cum)

\* variant: labor on a tie as well (<=)
ChooseSolutionTieLabor(lnpv, anpv) ==
    IF QLe(lnpv, anpv) THEN "labor" ELSE "automation"

\* "labor" if labor_cost_npv < automation_cost_npv else "automation"
ChooseSolution(lnpv, anpv) == IF QLt(lnpv, anpv) THEN "labor" ELSE "automation"

LaborInputs ==
    [ target_boxes         : {QI(0), QI(5)},
      workers_productivity : {QI(2)},
      worker_salary        : {QI(2), QI(4)},
      worker_tax_rate      : {Q0, Q(1, 2)},
      worker_training_cost : {QI(12)},
      robot_productivity   : {QI(4)},
      robot_cost           : {QI(0), QI(6), QI(12)},
      robot_lifespan       : {QI(12)},
      robot_maintenance    : {QI(1)},
      robot_software_cost  : {QI(0), QI(1)},
      discount_rate        : {QI(0), QI(12)},
      n_years              : 0 .. MaxYears,
      risk_adjustment      : {Q0, Q(1, 2)} ]

\* entry of the function: labor_cost_npv = 0, first NPV loop about to start
InitLabor ==
    /\ lp \in LaborInputs
    /\ lpc = "labor_npv"
    /\ lmonth = 1
    /\ labor_cost_npv = Q0
    /\ automation_cost_npv = Q0
    /\ optimal_solution = None
    /\ cumulative_savings = Q0
    /\ break_even_months = None
    /\ labor_result = None
    /\ McIdle
    /\ OptIdle
    /\ ProjIdle

\* one iteration of: for month in range(1, n_months+1): labor_cost_npv += ...
LaborNpvStep ==
    /\ lpc = "labor_npv"
    /\ InHorizon(lp, lmonth)
    /\ labor_cost_npv' =
         QAdd(labor_cost_npv,
              QDiv(QAdd(monthly_labor_cost(lp), annual_training(lp)),
                   DiscountFactor(lp, lmonth)))
    /\ lmonth' = lmonth + 1
    /\ UNCHANGED <<mcVars, optVars, projVars>>
    /\ UNCHANGED <<lpc, lp, automation_cost_npv, optimal_solution,
                   cumulative_savings, break_even_months, labor_result>>

\* the labor loop is exhausted: automation_cost_npv = initial_robot_cost
LaborNpvDone ==
    /\ lpc = "labor_npv"
    /\ ~InHorizon(lp, lmonth)
    /\ automation_cost_npv' = initial_robot_cost(lp)
    /\ lmonth' = 1
    /\ lpc' = "automation_npv"
    /\ UNCHANGED <<mcVars, optVars, projVars>>
    /\ UNCHANGED <<lp, labor_cost_npv, optimal_solution, cumulative_savings,
                   break_even_months, labor_result>>

\* one iteration of: automation_cost_npv += monthly_robot_cost / (...)**month
AutomationNpvStep ==
    /\ lpc = "automation_npv"
    /\ InHorizon(lp, lmonth)
    /\ automation_cost_npv' =
         QAdd(automation_cost_npv,
              QDiv(monthly_robot_cost(lp), DiscountFactor(lp, lmonth)))
    /\ lmonth' = lmonth + 1
    /\ UNCHANGED <<mcVars, optVars, projVars>>
    /\ UNCHANGED <<lpc, lp, labor_cost_npv, optimal_solution,
                   cumulative_savings, break_even_months, labor_result>>

\* automation_cost_npv *= (1 + risk_adjustment); choose; break_even = None
Decide ==
    /\ lpc = "automation_npv"
    /\ ~InHorizon(lp, lmonth)
    /\ LET anpv == QMul(automation_cost_npv, QAdd(Q1, lp.risk_adjustment))
           sol  == ChooseSolution(labor_cost_npv, anpv)
       IN  /\ automation_cost_npv' = anpv
           /\ optimal_solution' = Some(sol)
           /\ lpc' = IF sol = "automation" THEN "break_even" ELSE "return"
    /\ break_even_months' = None
    /\ cumulative_savings' = Q0
    /\ lmonth' = 1
    /\ UNCHANGED <<mcVars, optVars, projVars>>
    /\ UNCHANGED <<lp, labor_cost_npv, labor_result>>

\* one iteration of the break-even loop, with its break
BreakEvenStep ==
    /\ lpc = "break_even"
    /\ InHorizon(lp, lmonth)
    /\ LET cum == QAdd(cumulative_savings,
                       QDiv(monthly_savings(lp), DiscountFactor(lp, lmonth)))
       IN  /\ cumulative_savings' = cum
           /\ IF ReachedBreakEven(cum, lp)
              THEN /\ break_even_months' = Some(lmonth)
                   /\ lpc' = "return"
                   /\ lmonth' = lmonth
              ELSE /\ break_even_months' = break_even_months
                   /\ lpc' = lpc
                   /\ lmonth' = lmonth + 1
    /\ UNCHANGED <<mcVars, optVars, projVars>>
    /\ UNCHANGED <<lp, labor_cost_npv, automation_cost_npv, optimal_solution,
                   labor_result>>

\* the break-even loop ran out of months without reaching the investment
BreakEvenExhausted ==
    /\ lpc = "break_even"
    /\ ~InHorizon(lp, lmonth)
    /\ lpc' = "return"
    /\ UNCHANGED <<mcVars, optVars, projVars>>
    /\ UNCHANGED <<lp, lmonth, labor_cost_npv, automation_cost_npv,
                   optimal_solution, cumulative_savings, break_even_months,
                   labor_result>>

\* return {...}
LaborReturn ==
    /\ lpc = "return"
    /\ labor_result' =
         Some([ optimal_solution  |-> optimal_solution[1],
                labor_cost        |-> QTrunc(labor_cost_npv),
                automation_cost   |-> QTrunc(automation_cost_npv),
                break_even_months |-> break_even_months ])
    /\ lpc' = "done"
    /\ UNCHANGED <<mcVars, optVars, projVars>>
    /\ UNCHANGED <<lp, lmonth, labor_cost_npv, automation_cost_npv,
                   optimal_solution, cumulative_savings, break_even_months>>

NextLabor ==
    \/ LaborNpvStep
    \/ LaborNpvDone
    \/ AutomationNpvStep
    \/ Decide
    \/ BreakEvenStep
    \/ BreakEvenExhausted
    \/ LaborReturn

SpecLabor == InitLabor /\ [][NextLabor]_vars

----------------------------------------------------------------------------
(* Claims about calculate_labor_vs_automation                              *)

\* cumulative discounted monthly savings over months 1..k, as a closed sum
RECURSIVE CumulativeSavings(_, _)
CumulativeSavings(p, k) ==
    IF k = 0 THEN Q0
    ELSE QAdd(CumulativeSavings(p, k - 1),
              QDiv(monthly_savings(p), DiscountFactor(p, k)))

LaborReturned == lpc = "done"

ReturnedBreakEven == LaborReturned /\ labor_result[1].break_even_months # None

BreakEvenMonth == labor_result[1].break_even_months[1]

\* C5 as stated: a returned break-even month m has cumulative discounted
\* savings over 1..m >= the initial robot investment, cumulative discounted
\* savings over 1..m-1 < the initial robot investment, and 1 <= m <= n_years*12.
C5_BreakEvenAsStated ==
    ReturnedBreakEven =>
        /\ QLe(initial_robot_cost(lp), CumulativeSavings(lp, BreakEvenMonth))
        /\ QLt(CumulativeSavings(lp, BreakEvenMonth - 1), initial_robot_cost(lp))
        /\ 1 <= BreakEvenMonth
        /\ BreakEvenMonth <= lp.n_years * 12

\* C5 amended: a returned break-even month m is the first month of
\* 1..n_years*12 whose cumulative discounted savings reach the initial robot
\* investment: the sum over 1..m is >= the investment and the sum over 1..k is
\* < the investment for every earlier month k >= 1 (nothing is said of the
\* empty sum before month 1).
C5_BreakEvenIsFirstMonth ==
    ReturnedBreakEven =>
        /\ QLe(initial_robot_cost(lp), CumulativeSavings(lp, BreakEvenMonth))
        /\ \A k \in 1 .. (BreakEvenMonth - 1) :
              QLt(CumulativeSavings(lp, k), initial_robot_cost(lp))
        /\ 1 <= BreakEvenMonth
        /\ BreakEvenMonth <= lp.n_years * 12

\* a break-even month later than the first month was returned
C5_Witness == ReturnedBreakEven /\ BreakEvenMonth >= 2

\* C10: with n_years = 0 the labor NPV is 0, the automation NPV is the
\* one-time robot investment alone (inflated by the risk adjustment, with no
\* monthly term), and break_even_months is None.
C10_ZeroHorizon ==
    (LaborReturned /\ lp.n_years = 0) =>
        /\ labor_cost_npv = Q0
        /\ labor_result[1].labor_cost = 0
        /\ automation_cost_npv =
             QMul(initial_robot_cost(lp), QAdd(Q1, lp.risk_adjustment))
        /\ labor_result[1].break_even_months = None

\* a zero-horizon call returned, with robots to buy and monthly costs to pay
C10_Witness ==
    /\ LaborReturned
    /\ lp.n_years = 0
    /\ QLt(Q0, initial_robot_cost(lp))
    /\ QLt(Q0, monthly_robot_cost(lp))
    /\ QLt(Q0, monthly_labor_cost(lp))

----------------------------------------------------------------------------
(* project_inventory                                                       *)

\* sum(material_per_box.values())
SumValues(material_per_box) ==
    QSum([j \in 1 .. Len(Materials) |-> material_per_box[Materials[j]]])

\* variant: the level is carried on unclamped
NoClamp(level) == level

\* max(0, level)
ClampAtZero(level) == QMax(Q0, level)

\* assumed sales: 90% of the month's production
AssumedSalesShare == Q(9, 10)

\* current_raw after month m (1-based) of the projection
ProjectedRaw(a, raw, m) ==
    ClampAtZero(QAdd(raw, QSub(a.raw_material_orders[m],
                               QMul(a.production_plan[m], SumValues(a.material_per_box)))))

\* variant: the whole of the month's production is assumed sold
ProjectedGoodsAllSold(a, goods, m) ==
    ClampAtZero(QAdd(goods, QSub(a.production_plan[m], a.production_plan[m])))

\* current_goods after month m (1-based) of the projection
ProjectedGoods(a, goods, m) ==
    ClampAtZero(QAdd(goods, QSub(a.production_plan[m],
                                 QMul(a.production_plan[m], AssumedSalesShare))))

PlanQuantities == {QI(0), QI(10), QI(25)}

OrderQuantities == {QI(0), QI(30)}

ProjectionInputs ==
    UNION { [ production_plan     : [1 .. n -> PlanQuantities],
              raw_material_orders : [1 .. n -> OrderQuantities],
              current_inventory   : [raw_material : {QI(-20), QI(0), QI(40)},
                                     goods        : {QI(-3), QI(0), QI(5)}],
              material_per_box    : {[plastic |-> QI(2), dye |-> Q(1, 2)]} ]
            : n \in 1 .. MaxMonths }

\* entry of project_inventory, called on its own
InitProj ==
    /\ jargs \in ProjectionInputs
    /\ jpc = "loop"
    /\ jmonth = 0
    /\ current_raw = jargs.current_inventory.raw_material
    /\ current_goods = jargs.current_inventory.goods
    /\ inventory_projection = [raw_material |-> <<>>, finished_goods |-> <<>>]
    /\ LaborIdle
    /\ McIdle
    /\ OptIdle

\* one iteration of: for month in range(len(production_plan))
ProjectMonth ==
    /\ jpc = "loop"
    /\ jmonth < Len(jargs.production_plan)
    /\ LET raw   == ProjectedRaw(jargs, current_raw, jmonth + 1)
           goods == ProjectedGoods(jargs, current_goods, jmonth + 1)
       IN  /\ current_raw' = raw
           /\ current_goods' = goods
           /\ inventory_projection' =
                [ raw_material   |-> Append(inventory_projection.raw_material, raw),
                  finished_goods |-> Append(inventory_projection.finished_goods, goods) ]
    /\ jmonth' = jmonth + 1
    /\ UNCHANGED <<jpc, jargs>>
    /\ UNCHANGED <<laborVars, mcVars, optVars>>

\* return inventory_projection
ProjectReturn ==
    /\ jpc = "loop"
    /\ jmonth = Len(jargs.production_plan)
    /\ jpc' = "returned"
    /\ UNCHANGED <<jargs, jmonth, current_raw, current_goods, inventory_projection>>
    /\ UNCHANGED <<laborVars, mcVars, optVars>>

NextProj ==
    \/ ProjectMonth
    \/ ProjectReturn

SpecProj == InitProj /\ [][NextProj]_vars

----------------------------------------------------------------------------
(* Claims about project_inventory                                          *)

\* the raw-material level month m would have without the clamp
UnclampedRaw(m) ==
    QAdd(IF m = 1 THEN jargs.current_inventory.raw_material
                  ELSE inventory_projection.raw_material[m - 1],
         QSub(jargs.raw_material_orders[m],
              QMul(jargs.production_plan[m], SumValues(jargs.material_per_box))))

\* the finished-goods level month m would have without the clamp
UnclampedGoods(m) ==
    QAdd(IF m = 1 THEN jargs.current_inventory.goods
                  ELSE inventory_projection.finished_goods[m - 1],
         QMul(jargs.production_plan[m], Q(1, 10)))

\* C4: for non-negative plans and any starting inventory, every level
\* project_inventory reports is >= 0: a month's shortfall is clamped to 0, and
\* the clamped level is the one the next month starts from.
C4_ProjectionNonNegative ==
    (jpc \in {"loop", "returned"}) =>
        \A m \in 1 .. Len(inventory_projection.raw_material) :
            /\ QLe(Q0, inventory_projection.raw_material[m])
            /\ QLe(Q0, inventory_projection.finished_goods[m])
            /\ inventory_projection.raw_material[m] = QMax(Q0, UnclampedRaw(m))
            /\ inventory_projection.finished_goods[m] = QMax(Q0, UnclampedGoods(m))

\* a projection returned in which a shortfall of raw material and one of
\* finished goods were clamped, the raw-material one after the first month
C4_Witness ==
    /\ jpc = "returned"
    /\ \E m \in 2 .. Len(inventory_projection.raw_material) :
          QLt(UnclampedRaw(m), Q0)
    /\ \E m \in 1 .. Len(inventory_projection.finished_goods) :
          QLt(UnclampedGoods(m), Q0)

----------------------------------------------------------------------------
(* The cost models as calculate_total_cost calls them: a whole call at      *)
(* once, on the draws it consumes                                           *)

\* the trial costs of a whole call: n trials, k draws each, from stream s
TrialCosts(TrialCost(_, _), p, s, k) ==
    [i \in 1 .. p.n_simulations |-> TrialCost(p, TrialDraws(s, i, k))]

calculate_raw_material_costs(p, s) ==
    RawMaterialResult(p, TrialCosts(RawMaterialTrialCost, p, s, RawMaterialDrawsPerTrial))

calculate_production_costs(p, s) ==
    ProductionResult(p, TrialCosts(ProductionTrialCost, p, s, ProductionDrawsPerTrial))

RECURSIVE StorageBreakdownAfter(_, _, _)
StorageBreakdownAfter(p, s, i) ==
    IF i = 0 THEN EmptyRiskBreakdown
    ELSE StorageRiskBreakdown(StorageBreakdownAfter(p, s, i - 1), p,
                              TrialDraws(s, i, StorageDrawsPerTrial))

calculate_storage_costs(p, s) ==
    StorageResult(p, TrialCosts(StorageTrialCost, p, s, StorageDrawsPerTrial),
                  StorageBreakdownAfter(p, s, p.n_simulations))

calculate_logistics_costs(p, s) ==
    LogisticsResult(p, TrialCosts(own_cost, p, s, LogisticsDrawsPerTrial),
                    TrialCosts(contractor_cost, p, s, LogisticsDrawsPerTrial))

\* sum over month = 1..k of amount / (1 + discount_rate/12) ** month
RECURSIVE DiscountedSum(_, _, _)
DiscountedSum(p, amount, k) ==
    IF k = 0 THEN Q0
    ELSE QAdd(DiscountedSum(p, amount, k - 1), QDiv(amount, DiscountFactor(p, k)))

\* the part of calculate_labor_vs_automation's result calculate_total_cost reads
calculate_labor_vs_automation(p) ==
    LET lnpv == DiscountedSum(p, QAdd(monthly_labor_cost(p), annual_training(p)),
                              n_months_of(p))
        anpv == QMul(QAdd(initial_robot_cost(p),
                          DiscountedSum(p, monthly_robot_cost(p), n_months_of(p))),
                     QAdd(Q1, p.risk_adjustment))
    IN  [ optimal_solution |-> ChooseSolution(lnpv, anpv),
          labor_cost       |-> QTrunc(lnpv),
          automation_cost  |-> QTrunc(anpv) ]

----------------------------------------------------------------------------
(* calculate_total_cost                                                    *)

\* production_params.get('target_boxes', 10000): the key cannot be present,
\* production_params being passed on as keyword arguments beside target_boxes
DefaultTargetBoxes == 10000

\* production_params.get('product_value', 1000), absent for the same reason
DefaultProductValue == 1000

\* the draws of one month: raw material, production, storage, logistics
DrawsPerMonth(n) ==
    n * (RawMaterialDrawsPerTrial + ProductionDrawsPerTrial
         + StorageDrawsPerTrial + LogisticsDrawsPerTrial)

\* the draw sequences an evaluation is explored with: every draw the lowest
\* code, every draw the highest, or the codes in a rotation
Rotation == <<3, 1, 2, 3, 3>>

DrawPatterns == {1, 3, 0}

\* the draws month m (1-based) of an evaluation consumes
MonthStream(pattern, n, m) ==
    [i \in 1 .. DrawsPerMonth(n) |->
        IF pattern \in DrawCodes THEN pattern
        ELSE Rotation[(((m - 1) * DrawsPerMonth(n) + i - 1) % Len(Rotation)) + 1]]

\* the arguments of the four model calls of month m (1-based)
RawMaterialArgs(a, v, m) ==
    [ target_boxes      |-> v.raw_material_orders[m],
      material_per_box  |-> a.material_per_box,
      base_prices       |-> a.base_prices,
      price_volatility  |-> a.price_volatility,
      defect_rate       |-> a.defect_rate,
      delivery_risk     |-> a.delivery_risk,
      safety_stock_days |-> a.safety_stock_days,
      n_simulations     |-> a.n_simulations ]

ProductionArgs(a, v, m) ==
    [k \in DOMAIN a.production_params \cup {"target_boxes", "n_simulations"} |->
        IF k = "target_boxes" THEN v.production_plan[m]
        ELSE IF k = "n_simulations" THEN a.n_simulations
        ELSE a.production_params[k]]

\* inventory_value = raw_material * base_prices['plastic'] + goods * product_value
InventoryValue(a, inv) ==
    QAdd(QMul(inv.raw_material, a.base_prices["plastic"]),
         QMul(inv.goods, QI(DefaultProductValue)))

StorageArgs(a, inv) ==
    [k \in DOMAIN a.storage_params \cup {"inventory_value", "n_simulations"} |->
        IF k = "inventory_value" THEN InventoryValue(a, inv)
        ELSE IF k = "n_simulations" THEN a.n_simulations
        ELSE a.storage_params[k]]

LogisticsArgs(a, v, m) ==
    [k \in DOMAIN a.logistics_params
           \cup {"raw_material_volume", "finished_goods_volume", "n_simulations"} |->
        IF k = "raw_material_volume"
        THEN QDiv(QMul(v.raw_material_orders[m], SumValues(a.material_per_box)), QI(1000))
        ELSE IF k = "finished_goods_volume"
        THEN QMul(v.production_plan[m], Q(1, 100))
        ELSE IF k = "n_simulations" THEN a.n_simulations
        ELSE a.logistics_params[k]]

\* variant: the first month's production in place of the mean
FirstMonthProduction(v) == v.production_plan[1]

\* np.mean(production_plan)
MeanProduction(v) == QMean(v.production_plan)

LaborArgs(a, v) ==
    [k \in DOMAIN a.labor_params \cup {"target_boxes"} |->
        IF k = "target_boxes" THEN MeanProduction(v) ELSE a.labor_params[k]]

\* variant: the update with a floor at zero, as project_inventory has it
UpdatedInventoryClamped(a, v, inv, m) ==
    [ raw_material |->
        QMax(Q0, QAdd(inv.raw_material,
                      QSub(v.raw_material_orders[m],
                           QMul(v.production_plan[m], SumValues(a.material_per_box))))),
      goods |->
        QMax(Q0, QAdd(inv.goods,
                      QSub(v.production_plan[m],
                           QMul(v.production_plan[m], AssumedSalesShare)))) ]

\* the inventory update at the end of month m
UpdatedInventory(a, v, inv, m) ==
    [ raw_material |->
        QAdd(inv.raw_material,
             QSub(v.raw_material_orders[m],
                  QMul(v.production_plan[m], SumValues(a.material_per_box)))),
      goods |->
        QAdd(inv.goods,
             QSub(v.production_plan[m], QMul(v.production_plan[m], AssumedSalesShare))) ]

\* variant: the shortfall below the baseline, relative to the baseline
DemandRiskShortfall(v) ==
    LET total    == QSum(v.production_plan)
        baseline == QI(Len(v.production_plan) * DefaultTargetBoxes)
    IN  QMax(Q0, QDiv(QSub(baseline, total), baseline))

\* max(0, (np.sum(plan) - total_months * target) / np.sum(plan)); a zero sum
\* divides by zero, which numpy answers with -inf (and a warning): max gives 0
DemandRisk(v) ==
    LET total    == QSum(v.production_plan)
        baseline == QI(Len(v.production_plan) * DefaultTargetBoxes)
    IN  IF total = Q0 THEN Q0
        ELSE QMax(Q0, QDiv(QSub(total, baseline), total))

\* variant: the mean of two of the three risks
TotalRiskOfTwo(supply, production, demand) ==
    QDiv(QAdd(supply, production), QI(2))

\* (supply_risk + production_risk + demand_risk) / 3
TotalRisk(supply, production, demand) ==
    QDiv(QAdd(QAdd(supply, production), demand), QI(3))

\* total_labor_cost = labor_cost[f"{optimal_solution}_cost"] / total_months
TotalLaborCost(a, v) ==
    LET labor_cost == calculate_labor_vs_automation(LaborArgs(a, v))
    IN  Q(IF labor_cost.optimal_solution = "labor"
          THEN labor_cost.labor_cost ELSE labor_cost.automation_cost,
          Len(v.production_plan))

----------------------------------------------------------------------------
(* optimize_business_costs                                                 *)

OptProductionParams ==
    [ energy_per_box         |-> Q(5, 2),
      maintenance_per_box    |-> QI(3),
      rent                   |-> QI(500),
      utilities              |-> QI(200),
      equipment_depreciation |-> QI(250),
      certification          |-> QI(50),
      internal_logistics     |-> QI(100),
      it_infrastructure      |-> QI(150),
      waste_disposal         |-> QI(30),
      production_tax         |-> QI(50),
      equipment_insurance    |-> QI(100),
      energy_price_mean      |-> QI(8),
      energy_price_std       |-> Q(4, 5),
      equipment_failure_rate |-> Q(1, 1000),
      failure_extra_cost     |-> QI(2000) ]

OptStorageParams ==
    [ storage_volume          |-> QI(1000),
      used_volume             |-> QI(800),
      rent_per_month          |-> QI(500),
      security_systems_cost   |-> QI(30),
      wms_cost                |-> QI(15),
      utilities_cost          |-> QI(20),
      insurance_rate          |-> Q(12, 1000),
      depreciation_cost       |-> QI(25),
      storage_cost_per_m3     |-> QI(5),
      internal_logistics_cost |-> QI(50),
      spoilage_rate           |-> Q(1, 1000),
      rent_volatility         |-> Q(15, 100),
      spoilage_risk           |-> Q(1, 20),
      security_breach_risk    |-> Q(1, 50) ]

OptLogisticsParams ==
    [ distance_supplier      |-> QI(300),
      distance_customer      |-> QI(200),
      truck_capacity         |-> QI(12),
      truck_cost_per_km      |-> QI(1),
      truck_fixed_cost       |-> QI(80),
      contractor_cost_per_m3 |-> QI(55),
      contractor_delay_risk  |-> Q(15, 100),
      fuel_price_mean        |-> QI(60),
      fuel_price_std         |-> QI(5),
      damage_risk            |-> Q(1, 20),
      damage_cost_per_m3     |-> QI(10) ]

OptLaborParams ==
    [ workers_productivity |-> QI(4000),
      worker_salary        |-> QI(60),
      worker_tax_rate      |-> Q(1, 2),
      worker_training_cost |-> QI(24),
      robot_productivity   |-> QI(6000),
      robot_cost           |-> QI(1200),
      robot_lifespan       |-> QI(12),
      robot_maintenance    |-> QI(20),
      robot_software_cost  |-> QI(50),
      discount_rate        |-> QI(12),
      n_years              |-> 1,
      risk_adjustment      |-> Q(1, 2) ]

\* the budgets a caller may pass: none, zero, a positive amount
Budgets == {None, Some(Q0), Some(QI(1000000))}

OptInputs ==
    [ target_boxes      : {QI(10000)},
      current_inventory : {[raw_material |-> QI(5000), goods |-> QI(2000)]},
      material_per_box  : {[plastic |-> QI(2), dye |-> Q(1, 2)]},
      base_prices       : {[plastic |-> QI(10), dye |-> QI(20)]},
      price_volatility  : {[plastic |-> Q(1, 2), dye |-> Q(1, 10)]},
      defect_rate       : {Q(1, 20)},
      delivery_risk     : {Q(1, 10)},
      safety_stock_days : {7},
      n_simulations     : {1},
      production_params : {OptProductionParams},
      storage_params    : {OptStorageParams},
      logistics_params  : {OptLogisticsParams},
      labor_params      : {OptLaborParams},
      n_months          : 1 .. MaxMonths,
      risk_tolerance    : {Q(1, 10)},
      budget_constraint : Budgets ]

\* a decision vector x: x[0:n_months] and x[n_months:2*n_months]
Vector(production, orders) ==
    [production_plan |-> production, raw_material_orders |-> orders]

\* initial_guess
InitialGuess(a) ==
    Vector([m \in 1 .. a.n_months |-> a.target_boxes],
           [m \in 1 .. a.n_months |->
               QDiv(QMul(a.target_boxes, SumValues(a.material_per_box)),
                    QI(a.n_months))])

\* the points the minimizer may try: within the bounds (every entry >= 0),
\* production level below or above the target (the initial guess is at the
\* target) or varying around it in fractional amounts,
\* orders nil or placed every other month in a fractional amount
ProductionCandidates(n) ==
    { [m \in 1 .. n |-> QI(5000)],
      [m \in 1 .. n |-> QI(20000)],
      [m \in 1 .. n |-> Q(18001 + 2000 * (m % 3), 2)] }

OrderCandidates(n) ==
    { [m \in 1 .. n |-> QI(0)],
      [m \in 1 .. n |-> Q(200003 * (m % 2), 4)] }

Candidates(a) ==
    { Vector(pr, ord) : pr \in ProductionCandidates(a.n_months),
                        ord \in OrderCandidates(a.n_months) }

\* `if budget_constraint:` -- the truth value of the argument
Truthy(budget) == budget # None /\ budget[1] # Q0

\* the constraint list built before the minimizer runs
BuiltConstraints(budget) ==
    <<"production_nonnegative", "orders_nonnegative">>
        \o (IF Truthy(budget) THEN <<"budget">> ELSE <<>>)

\* entry of optimize_business_costs
Init ==
    /\ op \in OptInputs
    /\ opc = "start"
    /\ supplied_inventory = op.current_inventory
    /\ current_inventory = op.current_inventory
    /\ constraints = <<>>
    /\ n_evals = 0
    /\ caller = None
    /\ x = None
    /\ month = 0
    /\ eval_start_inventory = None
    /\ totals = None
    /\ risk_metrics = None
    /\ calls = <<>>
    /\ draws = None
    /\ cost_result = None
    /\ objective_value = None
    /\ constraint_value = None
    /\ min_result = None
    /\ opt_result = None
    /\ LaborIdle
    /\ McIdle
    /\ ProjIdle

\* the weights of the two penalty terms of the objective
TargetDeviationWeight == 100

RiskPenaltyWeight == 1000000

\* np.sum((production - target_boxes)**2)
SquaredDeviation(a, v) ==
    QSum([m \in 1 .. Len(v.production_plan) |->
            QMul(QSub(v.production_plan[m], a.target_boxes),
                 QSub(v.production_plan[m], a.target_boxes))])

\* variant: total_risk - risk_tolerance without the floor at 0
SignedExcessRisk(a, res) == QSub(res.risk_metrics.total_risk, a.risk_tolerance)

\* max(0, total_risk - risk_tolerance)
ExcessRisk(a, res) == QMax(Q0, QSub(res.risk_metrics.total_risk, a.risk_tolerance))

\* what objective(x) returns: total_cost + deviation * 100 + excess * 1e6,
\* kept as its three terms (the sum exceeds the integers TLC computes with)
Objective(a, v, res) ==
    [ total_cost               |-> res.total_cost,
      squared_deviation        |-> SquaredDeviation(a, v),
      target_deviation_weight  |-> TargetDeviationWeight,
      excess_risk              |-> ExcessRisk(a, res),
      risk_penalty_weight      |-> RiskPenaltyWeight ]

ZeroTotals ==
    [raw_materials |-> Q0, production |-> Q0, storage |-> Q0, logistics |-> Q0]

ZeroRiskMetrics ==
    [supply_risk |-> Q0, production_risk |-> Q0, demand_risk |-> Q0, total_risk |-> Q0]

\* entry of calculate_total_cost(x[0:n], x[n:2n], current_inventory, ...)
\* the draws the call will meet are fixed here; the values the previous call
\* returned have been consumed by its caller
EnterTotalCost(who, v) ==
    /\ caller' = who
    /\ x' = v
    /\ month' = 0
    /\ eval_start_inventory' = current_inventory
    /\ totals' = ZeroTotals
    /\ risk_metrics' = ZeroRiskMetrics
    /\ calls' = <<>>
    /\ draws' \in DrawPatterns
    /\ cost_result' = None
    /\ objective_value' = None
    /\ constraint_value' = None
    /\ opc' = "total_cost"

\* the constraint list is built (the `if budget_constraint:` included)
BuildConstraints ==
    /\ opc = "start"
    /\ constraints' = BuiltConstraints(op.budget_constraint)
    /\ opc' = "minimize_start"
    /\ UNCHANGED <<op, supplied_inventory, current_inventory, n_evals, caller, x,
                   month, eval_start_inventory, totals, risk_metrics, calls, draws,
                   cost_result, objective_value, constraint_value, min_result,
                   opt_result>>
    /\ UNCHANGED <<laborVars, mcVars, projVars>>

\* minimize(objective, initial_guess, ...): the objective at the initial guess
MinimizeStart ==
    /\ opc = "minimize_start"
    /\ EnterTotalCost("objective", InitialGuess(op))
    /\ UNCHANGED <<op, supplied_inventory, current_inventory, constraints, n_evals,
                   min_result, opt_result>>
    /\ UNCHANGED <<laborVars, mcVars, projVars>>

\* the minimizer evaluates the objective at a point of its choice
CallObjective ==
    /\ opc = "minimize"
    /\ n_evals < MaxEvals
    /\ \E v \in Candidates(op) : EnterTotalCost("objective", v)
    /\ n_evals' = n_evals + 1
    /\ UNCHANGED <<op, supplied_inventory, current_inventory, constraints,
                   min_result, opt_result>>
    /\ UNCHANGED <<laborVars, mcVars, projVars>>

\* the minimizer evaluates the budget constraint, when the list holds it
CallBudgetConstraint ==
    /\ opc = "minimize"
    /\ n_evals < MaxEvals
    /\ \E i \in 1 .. Len(constraints) : constraints[i] = "budget"
    /\ \E v \in Candidates(op) : EnterTotalCost("budget", v)
    /\ n_evals' = n_evals + 1
    /\ UNCHANGED <<op, supplied_inventory, current_inventory, constraints,
                   min_result, opt_result>>
    /\ UNCHANGED <<laborVars, mcVars, projVars>>

\* one iteration of calculate_total_cost's loop over the months
TotalCostMonth ==
    /\ opc = "total_cost"
    /\ month < Len(x.production_plan)
    /\    LET n   == op.n_simulations
              m   == month + 1
              s   == MonthStream(draws, n, m)
              k1  == n * RawMaterialDrawsPerTrial
              k2  == k1 + n * ProductionDrawsPerTrial
              k3  == k2 + n * StorageDrawsPerTrial
              k4  == k3 + n * LogisticsDrawsPerTrial
              raw_material_cost == calculate_raw_material_costs(
                                      RawMaterialArgs(op, x, m), SubSeq(s, 1, k1))
              production_cost   == calculate_production_costs(
                                      ProductionArgs(op, x, m), SubSeq(s, k1 + 1, k2))
              storage_cost      == calculate_storage_costs(
                                      StorageArgs(op, current_inventory),
                                      SubSeq(s, k2 + 1, k3))
              logistics_cost    == calculate_logistics_costs(
                                      LogisticsArgs(op, x, m), SubSeq(s, k3 + 1, k4))
              total_months      == QI(Len(x.production_plan))
          IN  /\ totals' =
                   [ raw_materials |-> QAdd(totals.raw_materials,
                                            QI(raw_material_cost.expected_cost)),
                     production    |-> QAdd(totals.production,
                                            QI(production_cost.total_cost)),
                     storage       |-> QAdd(totals.storage, storage_cost.avg_total_cost),
                     logistics     |-> QAdd(totals.logistics,
                                            QI(logistics_cost.total_cost)) ]
              /\ risk_metrics' =
                   [ risk_metrics EXCEPT
                       !.supply_risk =
                           QAdd(@, QDiv(raw_material_cost.risk_above_budget, total_months)),
                       !.production_risk =
                           QAdd(@, QDiv(production_cost.failure_risk, total_months)) ]
              /\ calls' = calls \o
                   << [model |-> "raw_material", month |-> m,
                       quantity |-> RawMaterialArgs(op, x, m).target_boxes,
                       risk |-> raw_material_cost.risk_above_budget],
                      [model |-> "production", month |-> m,
                       quantity |-> ProductionArgs(op, x, m).target_boxes,
                       risk |-> production_cost.failure_risk],
                      [model |-> "storage", month |-> m,
                       quantity |-> StorageArgs(op, current_inventory).inventory_value,
                       risk |-> Q0],
                      [model |-> "logistics", month |-> m,
                       quantity |->
                         [ raw_material_volume |->
                             LogisticsArgs(op, x, m).raw_material_volume,
                           finished_goods_volume |->
                             LogisticsArgs(op, x, m).finished_goods_volume ],
                       risk |-> Q0] >>
              /\ current_inventory' = UpdatedInventory(op, x, current_inventory, m)
    /\ month' = month + 1
    /\ UNCHANGED <<opc, op, supplied_inventory, constraints, n_evals, caller, x,
                   eval_start_inventory, draws, cost_result, objective_value,
                   constraint_value, min_result, opt_result>>
    /\ UNCHANGED <<laborVars, mcVars, projVars>>

\* the result of calculate_total_cost, after the loop over the months
TotalCostResult(a, v, tot, rm) ==
    LET total_labor_cost == TotalLaborCost(a, v)
        demand           == DemandRisk(v)
    IN  [ total_cost     |-> QSum(<<tot.raw_materials, tot.production, tot.storage,
                                    tot.logistics, total_labor_cost>>),
          cost_breakdown |-> [ raw_materials |-> tot.raw_materials,
                               production    |-> tot.production,
                               storage       |-> tot.storage,
                               logistics     |-> tot.logistics,
                               labor         |-> total_labor_cost ],
          risk_metrics   |-> [ supply_risk     |-> rm.supply_risk,
                               production_risk |-> rm.production_risk,
                               demand_risk     |-> demand,
                               total_risk      |-> TotalRisk(rm.supply_risk,
                                                             rm.production_risk,
                                                             demand) ] ]

\* the months are done: the labor model, the risks, the return to the caller
TotalCostReturn ==
    /\ opc = "total_cost"
    /\ month = Len(x.production_plan)
    /\ LET res == TotalCostResult(op, x, totals, risk_metrics)
       IN  /\ cost_result' = Some(res)
           /\ risk_metrics' = res.risk_metrics
           /\ calls' = Append(calls, [model |-> "labor", month |-> 0,
                                      quantity |-> LaborArgs(op, x).target_boxes,
                                      risk |-> Q0])
           /\ objective_value' =
                IF caller = "objective" THEN Some(Objective(op, x, res))
                ELSE objective_value
           /\ constraint_value' =
                IF caller = "budget"
                THEN Some(QSub(op.budget_constraint[1], res.total_cost))
                ELSE constraint_value
    /\ opc' = IF caller = "final" THEN "project" ELSE "minimize"
    /\ UNCHANGED <<op, supplied_inventory, current_inventory, constraints, n_evals,
                   caller, x, month, eval_start_inventory, totals, draws, min_result,
                   opt_result>>
    /\ UNCHANGED <<laborVars, mcVars, projVars>>

\* the messages minimize may end with; the first is the successful one, the
\* last needs an inequality that can fail, which only the budget's can
MinimizerMessages ==
    {"Optimization terminated successfully", "Iteration limit reached"}
        \cup (IF \E i \in 1 .. Len(constraints) : constraints[i] = "budget"
              THEN {"Inequality constraints incompatible"} ELSE {})

\* minimize returns its best-found point, the initial guess or the point it
\* evaluated last; the final plan is costed
MinimizeReturn ==
    /\ opc = "minimize"
    /\ \E v \in {x, InitialGuess(op)}, msg \in MinimizerMessages :
          /\ min_result' = Some([ x       |-> v,
                                  success |-> (msg = "Optimization terminated successfully"),
                                  message |-> msg ])
          /\ EnterTotalCost("final", v)
    /\ UNCHANGED <<op, supplied_inventory, current_inventory, constraints, n_evals,
                   opt_result>>
    /\ UNCHANGED <<laborVars, mcVars, projVars>>

\* project_inventory(optimal_production, raw_material_orders,
\*                   current_inventory, material_per_box)
ProjectCall ==
    /\ opc = "project"
    /\ jpc = "idle"
    /\ jargs' = [ production_plan     |-> min_result[1].x.production_plan,
                  raw_material_orders |-> min_result[1].x.raw_material_orders,
                  current_inventory   |-> current_inventory,
                  material_per_box    |-> op.material_per_box ]
    /\ jpc' = "loop"
    /\ jmonth' = 0
    /\ current_raw' = current_inventory.raw_material
    /\ current_goods' = current_inventory.goods
    /\ inventory_projection' = [raw_material |-> <<>>, finished_goods |-> <<>>]
    /\ UNCHANGED <<laborVars, mcVars, optVars>>

\* variant: astype(int) without the round, which truncates
RoundedPlanTruncated(plan) == [m \in 1 .. Len(plan) |-> QTrunc(plan[m])]

\* .round().astype(int) of a plan, entry by entry
RoundedPlan(plan) == [m \in 1 .. Len(plan) |-> QRound(plan[m], 1).n]

\* return {...}
OptReturn ==
    /\ opc = "project"
    /\ jpc = "returned"
    /\ opt_result' =
         Some([ optimal_production   |-> RoundedPlan(min_result[1].x.production_plan),
                raw_material_orders  |-> RoundedPlan(min_result[1].x.raw_material_orders),
                total_cost           |-> cost_result[1].total_cost,
                cost_breakdown       |-> cost_result[1].cost_breakdown,
                risk_analysis        |-> cost_result[1].risk_metrics,
                inventory_projection |-> inventory_projection,
                optimization_success |-> min_result[1].success,
                message              |-> min_result[1].message ])
    /\ opc' = "done"
    /\ UNCHANGED <<op, supplied_inventory, current_inventory, constraints, n_evals,
                   caller, x, month, eval_start_inventory, totals, risk_metrics,
                   calls, draws, cost_result, objective_value, constraint_value,
                   min_result>>
    /\ UNCHANGED <<laborVars, mcVars, projVars>>

Next ==
    \/ BuildConstraints
    \/ MinimizeStart
    \/ CallObjective
    \/ CallBudgetConstraint
    \/ TotalCostMonth
    \/ TotalCostReturn
    \/ MinimizeReturn
    \/ ProjectCall
    \/ ProjectMonth
    \/ ProjectReturn
    \/ OptReturn

Spec == Init /\ [][Next]_vars

----------------------------------------------------------------------------
(* properties of optimize_business_costs and calculate_total_cost          *)

\* an evaluation of calculate_total_cost has returned and its result stands
TotalCostReturned == cost_result # None

\* np.sum(production_plan) of the plan being evaluated
CumulativeProduction == QSum(x.production_plan)

\* total_months * 10000, the baseline the demand risk is measured against
Baseline == QI(Len(x.production_plan) * DefaultTargetBoxes)

\* C1: every evaluation of calculate_total_cost within one run starts from the
\* inventory the caller supplied
C1_SameStartingInventory ==
    opc = "total_cost" => eval_start_inventory = supplied_inventory

\* C3: the returned demand_risk is the relative shortfall of cumulative
\* production below the baseline: 0 when production meets or exceeds the
\* baseline, strictly positive when it is below
C3_DemandRiskIsShortfall ==
    TotalCostReturned =>
        LET demand_risk == cost_result[1].risk_metrics.demand_risk
        IN  /\ QLe(Baseline, CumulativeProduction) => demand_risk = Q0
            /\ QLt(CumulativeProduction, Baseline) => QLt(Q0, demand_risk)

\* C3: for a plan of positive cumulative production the returned demand_risk
\* is the relative surplus of cumulative production above the baseline: 0
\* when production is at or below the baseline, and when it is above,
\* strictly between 0 and 1 with demand_risk * sum = sum - baseline
C3_DemandRiskIsSurplus ==
    TotalCostReturned /\ QLt(Q0, CumulativeProduction) =>
        LET demand_risk == cost_result[1].risk_metrics.demand_risk
        IN  /\ QLe(CumulativeProduction, Baseline) => demand_risk = Q0
            /\ QLt(Baseline, CumulativeProduction) =>
                  /\ QLt(Q0, demand_risk)
                  /\ QLt(demand_risk, Q1)
                  /\ QMul(demand_risk, CumulativeProduction)
                        = QSub(CumulativeProduction, Baseline)

C3_Witness ==
    /\ TotalCostReturned
    /\ QLt(Baseline, CumulativeProduction)
    /\ QLt(Q0, cost_result[1].risk_metrics.demand_risk)

\* C6: the constraint list handed to the minimizer holds the budget
\* inequality exactly when the caller supplied a budget, a budget of 0
\* included; without a budget it holds the two non-negativity constraints
C6_BudgetConstraintIffSupplied ==
    opc \notin {"start"} =>
        /\ (\E i \in 1 .. Len(constraints) : constraints[i] = "budget")
              <=> op.budget_constraint # None
        /\ op.budget_constraint = None => Len(constraints) = 2

\* C7: each of the four returned risks is a fraction between 0 and 1
C7_RisksAreFractions ==
    TotalCostReturned =>
        \A r \in {"supply_risk", "production_risk", "demand_risk", "total_risk"} :
            /\ QLe(Q0, cost_result[1].risk_metrics[r])
            /\ QLe(cost_result[1].risk_metrics[r], Q1)

\* the risks the named model reported, month by month, in the running
\* evaluation
MonthlyRisks(model) ==
    LET of_model == SelectSeq(calls, LAMBDA c : c.model = model)
    IN  [i \in 1 .. Len(of_model) |-> of_model[i].risk]

\* C8: in every result total_risk is a third of the sum of the other three
\* risks, with supply_risk and production_risk the means over the months of
\* what the raw material and the production model reported
C8_TotalRiskIsMean ==
    TotalCostReturned =>
        LET r == cost_result[1].risk_metrics
        IN  /\ QMul(r.total_risk, QI(3))
                 = QSum(<<r.supply_risk, r.production_risk, r.demand_risk>>)
            /\ Len(MonthlyRisks("raw_material")) = Len(x.production_plan)
            /\ Len(MonthlyRisks("production")) = Len(x.production_plan)
            /\ r.supply_risk = QMean(MonthlyRisks("raw_material"))
            /\ r.production_risk = QMean(MonthlyRisks("production"))

C8_Witness ==
    /\ TotalCostReturned
    /\ Len(x.production_plan) >= 2
    /\ MonthlyRisks("raw_material")[1] # MonthlyRisks("raw_material")[2]
    /\ QLt(Q0, cost_result[1].risk_metrics.demand_risk)

\* optimize_business_costs has returned
OptReturned == opc = "done"

\* k is q rounded to the nearest integer, a tie going to the even neighbour
IsRounded(k, q) ==
    LET distance == QMax(QSub(QI(k), q), QSub(q, QI(k)))
    IN  /\ QLe(distance, Q(1, 2))
        /\ distance = Q(1, 2) => k % 2 = 0

\* C12: whatever the minimizer returns, success or not, the call returns a
\* result that carries the minimizer's success flag and message and, as its
\* two plans, the minimizer's best-found point rounded to integers
C12_MinimizerOutcomeReported ==
    OptReturned =>
        LET r    == opt_result[1]
            best == min_result[1]
        IN  /\ r.optimization_success = best.success
            /\ r.message = best.message
            /\ Len(r.optimal_production) = op.n_months
            /\ Len(r.raw_material_orders) = op.n_months
            /\ \A m \in 1 .. op.n_months :
                  /\ IsRounded(r.optimal_production[m], best.x.production_plan[m])
                  /\ IsRounded(r.raw_material_orders[m], best.x.raw_material_orders[m])

\* a call returned after the minimizer found the budget infeasible, its
\* best-found point holding
\* an entry that rounds up
C12_Witness ==
    /\ OptReturned
    /\ ~ opt_result[1].optimization_success
    /\ opt_result[1].message = "Inequality constraints incompatible"
    /\ \E m \in 1 .. op.n_months :
          QLt(min_result[1].x.raw_material_orders[m],
              QI(opt_result[1].raw_material_orders[m]))

\* objective(x) has returned to the minimizer
ObjectiveReturned == objective_value # None

\* every month of the plan being evaluated produces target_boxes
ProductionOnTarget ==
    \A m \in 1 .. Len(x.production_plan) : x.production_plan[m] = op.target_boxes

\* the total risk of the running evaluation is within the tolerance
RiskWithinTolerance ==
    QLe(cost_result[1].risk_metrics.total_risk, op.risk_tolerance)

\* C15: the value the objective returns for x is total_cost(x) + 100 * the
\* sum over the months of (production[m] - target_boxes)^2 + 1,000,000 *
\* max(0, total_risk(x) - risk_tolerance); both penalties are 0 when every
\* month is on target and the risk within the tolerance, and neither is
\* negative, so the value is never below total_cost(x)
C15_ObjectiveValue ==
    ObjectiveReturned =>
        LET value == objective_value[1]
            risk  == cost_result[1].risk_metrics.total_risk
        IN  /\ value.total_cost = cost_result[1].total_cost
            /\ value.target_deviation_weight = 100
            /\ value.risk_penalty_weight = 1000000
            /\ value.squared_deviation =
                  QSum([m \in 1 .. Len(x.production_plan) |->
                          QPow(QSub(x.production_plan[m], op.target_boxes), 2)])
            /\ value.excess_risk =
                  (IF RiskWithinTolerance THEN Q0 ELSE QSub(risk, op.risk_tolerance))
            /\ QLe(Q0, value.squared_deviation)
            /\ QLe(Q0, value.excess_risk)
            /\ ProductionOnTarget => value.squared_deviation = Q0
            /\ (ProductionOnTarget /\ RiskWithinTolerance) =>
                  value.squared_deviation = Q0 /\ value.excess_risk = Q0

\* the objective returned for a plan on target and within the tolerance
C15_Witness ==
    /\ ObjectiveReturned
    /\ ProductionOnTarget
    /\ RiskWithinTolerance
    /\ objective_value[1].excess_risk = Q0

\* the inventory an evaluation that started from `start` holds after the
\* first k months of plan x, by the additive rule and without any floor
InventoryAfter(start, k) ==
    [ raw_material |->
        QAdd(start.raw_material,
             QSum([m \in 1 .. k |->
                     QSub(x.raw_material_orders[m],
                          QMul(x.production_plan[m],
                               QAdd(op.material_per_box.plastic,
                                    op.material_per_box.dye)))])),
      goods |->
        QAdd(start.goods,
             QSum([m \in 1 .. k |-> QMul(x.production_plan[m], Q(1, 10))])) ]

\* the inventory value the storage model was called with in month m
StorageCallValue(m) ==
    LET of_storage == SelectSeq(calls, LAMBDA c : c.model = "storage")
    IN  of_storage[m].quantity

\* C16: within one evaluation the inventory is updated once after each
\* month, in month order, by raw_material += purchases[m] - production[m] *
\* (sum of per-box consumption) and goods += production[m] - 90% of
\* production[m]; month m's storage cost is computed from the inventory as it
\* stands before month m's update; nothing is clamped at zero
C16_InventoryUpdatedAdditively ==
    opc = "total_cost" =>
        /\ current_inventory = InventoryAfter(eval_start_inventory, month)
        /\ \A m \in 1 .. month :
              StorageCallValue(m) =
                 LET before == InventoryAfter(eval_start_inventory, m - 1)
                 IN  QAdd(QMul(before.raw_material, op.base_prices.plastic),
                          QMul(before.goods, QI(1000)))

\* an evaluation has run two months or more and the raw material it holds
\* has gone below zero
C16_Witness ==
    /\ opc = "total_cost"
    /\ month >= 2
    /\ QLt(current_inventory.raw_material, Q0)
    /\ QLt(InventoryAfter(eval_start_inventory, 1).raw_material, Q0)

\* the order in which one month calls the four Monte Carlo models
MonthlyModels == <<"raw_material", "production", "storage", "logistics">>

\* the j-th model call of month m in the log of the running evaluation
MonthCall(m, j) == calls[Len(MonthlyModels) * (m - 1) + j]

\* C17: an evaluation of an N-month plan calls each of the four Monte Carlo
\* models exactly N times, once a month in the order raw material,
\* production, storage, logistics and with that month's decision values, and
\* calls the labor model exactly once, after the months, with the mean of the
\* production plan; the returned total_cost is the sum of the five
\* categories of the breakdown
C17_ModelCallsPerEvaluation ==
    TotalCostReturned =>
        LET N         == Len(x.production_plan)
            breakdown == cost_result[1].cost_breakdown
        IN  /\ Len(calls) = Len(MonthlyModels) * N + 1
            /\ \A m \in 1 .. N :
                  /\ \A j \in 1 .. Len(MonthlyModels) :
                        /\ MonthCall(m, j).model = MonthlyModels[j]
                        /\ MonthCall(m, j).month = m
                  /\ MonthCall(m, 1).quantity = x.raw_material_orders[m]
                  /\ MonthCall(m, 2).quantity = x.production_plan[m]
                  /\ QMul(MonthCall(m, 4).quantity.finished_goods_volume, QI(100))
                        = x.production_plan[m]
                  /\ QMul(MonthCall(m, 4).quantity.raw_material_volume, QI(1000))
                        = QMul(x.raw_material_orders[m],
                               QAdd(op.material_per_box.plastic,
                                    op.material_per_box.dye))
            /\ calls[Len(calls)].model = "labor"
            /\ QMul(calls[Len(calls)].quantity, QI(N)) = QSum(x.production_plan)
            /\ cost_result[1].total_cost =
                  QSum(<<breakdown.raw_materials, breakdown.production,
                         breakdown.storage, breakdown.logistics, breakdown.labor>>)

\* an evaluation of a plan of two months or more, their production differing,
\* has returned
C17_Witness ==
    /\ TotalCostReturned
    /\ Len(x.production_plan) >= 2
    /\ x.production_plan[1] # x.production_plan[2]
    /\ Len(calls) = Len(MonthlyModels) * Len(x.production_plan) + 1

\* C18: the returned inventory_projection replays the final plan from the
\* inventory the caller passed in: its first raw-material level is max(0,
\* initial raw_material + purchases[0] - production[0] * total consumption)
\* and its first goods level max(0, initial goods + 10% of production[0]),
\* however many evaluations the minimizer made
C18_ProjectionFromSuppliedInventory ==
    OptReturned =>
        LET plan       == min_result[1].x
            projection == opt_result[1].inventory_projection
        IN  /\ projection.raw_material[1] =
                  QMax(Q0, QAdd(supplied_inventory.raw_material,
                                QSub(plan.raw_material_orders[1],
                                     QMul(plan.production_plan[1],
                                          QAdd(op.material_per_box.plastic,
                                               op.material_per_box.dye)))))
            /\ projection.finished_goods[1] =
                  QMax(Q0, QAdd(supplied_inventory.goods,
                                QMul(plan.production_plan[1], Q(1, 10))))

----------------------------------------------------------------------------
(* further properties of calculate_labor_vs_automation                     *)

\* the NPV of the labor option over the horizon
LaborNpv ==
    DiscountedSum(lp, QAdd(monthly_labor_cost(lp), annual_training(lp)),
                  n_months_of(lp))

\* the NPV of the automation option, inflated by the risk adjustment
InflatedAutomationNpv ==
    QMul(QAdd(initial_robot_cost(lp),
              DiscountedSum(lp, monthly_robot_cost(lp), n_months_of(lp))),
         QAdd(Q1, lp.risk_adjustment))

\* no month of the horizon sees the cumulative discounted savings reach the
\* initial robot investment
NeverBreaksEven ==
    \A k \in 1 .. n_months_of(lp) :
        QLt(CumulativeSavings(lp, k), initial_robot_cost(lp))

\* C19: labor is chosen exactly when the labor NPV is strictly below the
\* risk-inflated automation NPV, automation otherwise, ties included; and
\* break_even_months is None whenever labor is chosen or the cumulative
\* discounted savings never reach the initial robot investment within
\* n_years * 12 months
C19_LowerNpvChosen ==
    LaborReturned =>
        /\ labor_result[1].optimal_solution \in {"labor", "automation"}
        /\ labor_result[1].optimal_solution = "labor"
              <=> QLt(LaborNpv, InflatedAutomationNpv)
        /\ LaborNpv = InflatedAutomationNpv
              => labor_result[1].optimal_solution = "automation"
        /\ (labor_result[1].optimal_solution = "labor" \/ NeverBreaksEven)
              => labor_result[1].break_even_months = None

\* automation was chosen over a horizon of some months in which the savings
\* never reach the investment
C19_Witness ==
    /\ LaborReturned
    /\ labor_result[1].optimal_solution = "automation"
    /\ n_months_of(lp) > 0
    /\ NeverBreaksEven
    /\ labor_result[1].break_even_months = None

\* a call returned on a tie of the two NPVs
LaborTie == LaborReturned /\ LaborNpv = InflatedAutomationNpv

----------------------------------------------------------------------------
(* further properties of calculate_storage_costs                           *)

\* rent + utilities + ... + spoilage, summed afresh from the arguments
StorageBase ==
    QSum(<<mp.rent_per_month, mp.security_systems_cost, mp.wms_cost,
           mp.utilities_cost, mp.depreciation_cost,
           QDiv(QMul(mp.inventory_value, mp.insurance_rate), QI(12)),
           QMul(mp.used_volume, mp.storage_cost_per_m3),
           mp.internal_logistics_cost,
           QMul(mp.inventory_value, mp.spoilage_rate)>>)

\* the most the three risk events can add to one trial
StorageWorstCase ==
    QSum(<<QMul(mp.rent_per_month, mp.rent_volatility),
           QMul(QI(2), QMul(mp.inventory_value, mp.spoilage_rate)),
           QMul(Q(1, 100), mp.inventory_value)>>)

\* C20: for every n >= 1 and every sequence of draws the mean simulated
\* storage cost is base_cost plus the sum of the three risk_breakdown
\* entries, and with non-negative rent, inventory value and rates the least
\* simulated cost is >= base_cost and the greatest <= base_cost + rent *
\* volatility + 2 * inventory_value * spoilage_rate + 0.01 * inventory_value
C20_StorageMeanAndRange ==
    (McReturned /\ mmodel = "storage") =>
        LET rb == mresult[1].risk_breakdown
        IN  /\ QMean(simulated_costs) =
                  QSum(<<StorageBase, rb.rent_increase, rb.extra_spoilage,
                         rb.security_incidents>>)
            /\ QLe(StorageBase, QMinSeq(simulated_costs))
            /\ QLe(QMaxSeq(simulated_costs), QAdd(StorageBase, StorageWorstCase))
            /\ QLe(mresult[1].base_cost, mresult[1].min_cost)

\* a storage call of two trials or more returned in which a rent increase and
\* extra spoilage hit some trial but not every trial alike
C20_Witness ==
    /\ McReturned
    /\ mmodel = "storage"
    /\ mp.n_simulations >= 2
    /\ QLt(Q0, mresult[1].risk_breakdown.rent_increase)
    /\ QLt(Q0, mresult[1].risk_breakdown.extra_spoilage)
    /\ QLt(QMinSeq(simulated_costs), QMaxSeq(simulated_costs))


\* the inventory calculate_total_cost holds after the first k months of the
\* plan project_inventory was given, started from the same inventory
RECURSIVE AggregatedInventory(_)
AggregatedInventory(k) ==
    IF k = 0 THEN jargs.current_inventory
             ELSE UpdatedInventory(jargs, jargs, AggregatedInventory(k - 1), k)

\* project_inventory has clamped a raw-material level in months 1 .. m
RawClampedBy(m) == \E j \in 1 .. m : QLt(UnclampedRaw(j), Q0)

\* project_inventory has clamped a finished-goods level in months 1 .. m
GoodsClampedBy(m) == \E j \in 1 .. m : QLt(UnclampedGoods(j), Q0)

\* C21: for the same plan, starting inventory and consumption rates the
\* inventory calculate_total_cost accumulates and the trajectory
\* project_inventory reports are equal in every month up to which no level
\* would go below zero, and from the first month in which project_inventory
\* clamps a negative level to 0 the clamped quantity stays above the
\* aggregator's in every later month
C21_TrajectoriesAgreeUntilClamp ==
    (jpc \in {"loop", "returned"}) =>
        \A m \in 1 .. Len(inventory_projection.raw_material) :
            LET agg == AggregatedInventory(m)
            IN  /\ ~RawClampedBy(m) =>
                      inventory_projection.raw_material[m] = agg.raw_material
                /\ ~GoodsClampedBy(m) =>
                      inventory_projection.finished_goods[m] = agg.goods
                /\ RawClampedBy(m) =>
                      QLt(agg.raw_material, inventory_projection.raw_material[m])
                /\ GoodsClampedBy(m) =>
                      QLt(agg.goods, inventory_projection.finished_goods[m])

\* a two-month projection returned whose raw material agrees with the
\* aggregator in month 1 at a positive level and is first clamped in month 2,
\* and whose finished goods are clamped in month 1 and, unclamped in month 2,
\* still differ from the aggregator's
C21_Witness ==
    /\ jpc = "returned"
    /\ Len(inventory_projection.raw_material) = 2
    /\ ~RawClampedBy(1)
    /\ QLt(Q0, inventory_projection.raw_material[1])
    /\ inventory_projection.raw_material[1] = AggregatedInventory(1).raw_material
    /\ QLt(UnclampedRaw(2), Q0)
    /\ GoodsClampedBy(1)
    /\ ~QLt(UnclampedGoods(2), Q0)
    /\ QLt(Q0, inventory_projection.finished_goods[2])
    /\ inventory_projection.finished_goods[2] # AggregatedInventory(2).goods

============================================================================
